---- MODULE Spec2Model ----
(***************************************************************************)
(* A model of smtp.go: the SMTP client's Send state machine                *)
(* (dial, EHLO/HELO, STARTTLS, MAIL, RCPT, DATA, QUIT), its MX resolution  *)
(* loop, its EHLO extension parser, conn.close, the message Request.Write  *)
(* puts out, and two Send calls running at once.                           *)
(*                                                                         *)
(* Strings are sequences of tokens.  A token is a run of ordinary          *)
(* characters ("AUTH", "mail.example.com") or one of the separator tokens  *)
(* CR, LF, SP, COLON, so that strings.Split, strings.SplitN,               *)
(* strings.ContainsAny and net.SplitHostPort are computed, not assumed.    *)
(***************************************************************************)
EXTENDS Integers, Sequences, FiniteSets, TLC

\* ------------------------------------------------------------------ bounds
\* Number of Send calls made on the one Client.
MaxSends == 2
\* Longest To list of a Request.
MaxTo == 2
\* Most extension lines in an EHLO response.
MaxExtLines == 2
\* Most MX records a successful lookup returns.
MaxMX == 2
\* Most keys in the Header of a Request.
MaxHeaderKeys == 2

\* ----------------------------------------------------------------- strings
CR == "\\r"
LF == "\\n"
SP == " "
COLON == ":"
TAB == "\\t"

\* strings.ContainsAny(s, chars)
ContainsAny(s, chars) == \E i \in DOMAIN s : s[i] \in chars

\* strings.Index for a one-character separator; 0 when absent.
IndexOf(s, sep) ==
    IF \E i \in DOMAIN s : s[i] = sep
    THEN CHOOSE i \in DOMAIN s : s[i] = sep /\ \A j \in 1..(i - 1) : s[j] # sep
    ELSE 0

LastIndexOf(s, sep) ==
    IF \E i \in DOMAIN s : s[i] = sep
    THEN CHOOSE i \in DOMAIN s : s[i] = sep /\ \A j \in (i + 1)..Len(s) : s[j] # sep
    ELSE 0

\* strings.Split(s, sep): always at least one element.
RECURSIVE Split(_, _)
Split(s, sep) ==
    LET i == IndexOf(s, sep)
    IN  IF i = 0 THEN <<s>>
        ELSE <<SubSeq(s, 1, i - 1)>> \o Split(SubSeq(s, i + 1, Len(s)), sep)

\* strings.SplitN(s, sep, 2)
SplitN2(s, sep) ==
    LET i == IndexOf(s, sep)
    IN  IF i = 0 THEN <<s>>
        ELSE <<SubSeq(s, 1, i - 1), SubSeq(s, i + 1, Len(s))>>

\* The inverse of Split, used to build server responses.
RECURSIVE Join(_, _)
Join(ss, sep) ==
    IF ss = <<>> THEN <<>>
    ELSE IF Len(ss) = 1 THEN ss[1]
    ELSE ss[1] \o <<sep>> \o Join(Tail(ss), sep)

\* All sequences over S of length at most n.
SeqsUpTo(S, n) == UNION {[1..k -> S] : k \in 0..n}

\* validateLine: the error, or "nil".
validateLine(line) ==
    IF ContainsAny(line, {CR, LF}) THEN "ErrCRLFContain" ELSE "nil"

\* -------------------------------------------------------------------- maps
\* A Go map[string]string is a set of <<key, value>> pairs with unique keys.
Keys(m) == {kv[1] : kv \in m}
HasKey(m, k) == k \in Keys(m)
Get(m, k) == (CHOOSE kv \in m : kv[1] = k)[2]
Put(m, k, v) == {kv \in m : kv[1] # k} \cup {<<k, v>>}

\* ---------------------------------------------------------------- parseExt
\* The loop of parseExt over the extension lines, with its break.
RECURSIVE parseExtLoop(_, _)
parseExtLoop(extMsgs, ext) ==
    IF extMsgs = <<>> THEN ext
    ELSE LET extKV == SplitN2(Head(extMsgs), SP)
         IN  IF Len(extKV) > 1
             THEN Put(ext, extKV[1], extKV[2])
             ELSE parseExtLoop(Tail(extMsgs), Put(ext, extKV[1], <<>>))

parseExt(ehloMsg) ==
    LET extMsgs == Split(ehloMsg, LF)
    IN  IF Len(extMsgs) > 1 THEN parseExtLoop(Tail(extMsgs), {}) ELSE {}

\* ----------------------------------------------------------------- headers
\* A Header (map[string][]string) is a set of <<key, values>> pairs with
\* unique keys; what Request.Write puts out is the sequence of its writes.

\* A replacer that turns LF into a space and leaves CR.
headerLFToSpace(v) == [i \in DOMAIN v |-> IF v[i] = LF THEN SP ELSE v[i]]

\* headerNewlineToSpace.Replace
headerNewlineToSpace(v) ==
    [i \in DOMAIN v |-> IF v[i] = LF \/ v[i] = CR THEN SP ELSE v[i]]

\* textproto.TrimString: leading and trailing ASCII space is cut.
isASCIISpace(b) == b \in {SP, TAB, LF, CR}

RECURSIVE TrimString(_)
TrimString(str) ==
    IF str = <<>> THEN str
    ELSE IF isASCIISpace(Head(str)) THEN TrimString(Tail(str))
    ELSE IF isASCIISpace(str[Len(str)]) THEN TrimString(SubSeq(str, 1, Len(str) - 1))
    ELSE str

defaultExcludeHeaders == {<<"From">>, <<"To">>, <<"Subject">>}

\* Header.exclude: the map after the keys with exclude[k] are deleted.
exclude(h, ex) == {kv \in h : kv[1] \notin ex}

\* writeHeader: the one write it makes.
writeHeader(key, value) == key \o <<COLON, SP>> \o value \o <<CR, LF>>

\* The orders in which a range over the map may visit its keys.
KeyOrders(h) ==
    {q \in [1..Cardinality(Keys(h)) -> Keys(h)] :
        \A i, j \in DOMAIN q : i # j => q[i] # q[j]}

\* One writeHeader per element of a list of values.
RECURSIVE writeHeaders(_, _)
writeHeaders(key, values) ==
    IF values = <<>> THEN <<>>
    ELSE <<writeHeader(key, Head(values))>> \o writeHeaders(key, Tail(values))

\* The loops of WriteSubset over the keys in the order visited.
RECURSIVE writeKeys(_, _)
writeKeys(h, order) ==
    IF order = <<>> THEN <<>>
    ELSE LET vs == Get(h, Head(order))
         IN  writeHeaders(Head(order),
                          [i \in DOMAIN vs |-> TrimString(headerNewlineToSpace(vs[i]))])
             \o writeKeys(h, Tail(order))

\* Header.WriteSubset on the map left by exclude: the header lines, then the
\* empty line.
WriteSubset(h, order) == writeKeys(h, order) \o <<<<CR, LF>>>>

\* The writes of Request.Write before it calls Header.WriteSubset.
envelopeWrites(r) ==
    <<writeHeader(<<"From">>, r.From)>> \o writeHeaders(<<"To">>, r.To)
    \o writeHeaders(<<"Cc">>, r.Cc) \o <<writeHeader(<<"Subject">>, r.Subject)>>

\* Request.Write: all its writes, with io.Copy of the body as the last.
requestWrite(r, order) ==
    envelopeWrites(r) \o WriteSubset(exclude(r.Header, defaultExcludeHeaders), order)
    \o <<r.Body>>

\* ------------------------------------------------------------------ inputs
\* Remote identifiers given to NewClient: one host:port, one without a port.
RemoteHosts == {<<"mail.example.com", COLON, "25">>, <<"mail.example.com">>}

\* Local identifiers: NewClient's "localhost", and one carrying CR LF (the
\* field is read by Send and passed to hello, which validates it).
LocalHosts == {<<"localhost">>, <<"local", CR, LF, "host">>}

AddrA == <<"a@x.com">>
AddrB == <<"b@y.com">>
AddrC == <<"c@z.com">>
AddrEvil == <<"e@w.com>", CR, LF, "DATA">>

\* A *tls.Config: nil, or a configuration with its ServerName.
NilConfig == [set |-> FALSE, ServerName |-> <<>>]
Config(name) == [set |-> TRUE, ServerName |-> name]

\* The configuration a caller supplies in Request.TLSConfig.
CallerConfig == Config(<<"mx.internal">>)

\* Header keys a caller may set: reserved names as Request.Write spells them
\* and in another case, a custom name, and a name that carries CR LF.
HeaderKeys ==
    {<<"From">>, <<"to">>, <<"Subject">>, <<"X-Note">>, <<"X-A", CR, LF, "X-B">>}

ValueNote == <<"line1", LF, "line2">>
ValuePadded == <<SP, "a", CR, LF, "b", TAB>>

\* The values under one key.
HeaderValues == {<<ValueNote>>, <<ValuePadded>>, <<ValueNote, ValuePadded>>}

\* Every Header of at most MaxHeaderKeys keys.
Headers ==
    {h \in SUBSET (HeaderKeys \X HeaderValues) :
        /\ Cardinality(h) <= MaxHeaderKeys
        /\ \A a, b \in h : a[1] = b[1] => a = b}

\* The Header NewRequest makes.
NoHeader == {}

SubjectHi == <<"Hi">>
BodyText == <<"hello", CR, LF>>

\* Extension lines a server may advertise after the first EHLO line.
ExtLines == {<<"8BITMIME">>, <<"STARTTLS">>, <<"AUTH", SP, "PLAIN", SP, "LOGIN">>}

\* An EHLO response message: the greeting line, then the extension lines,
\* joined by "\n" as textproto.ReadResponse joins a multi-line response.
EhloMsg(lines) == Join(<<<<"mail.example.com">>>> \o lines, LF)

\* The extension lines of a message built by EhloMsg.
LinesOf(msg) == Tail(Split(msg, LF))

\* The caller and the server a Client is run against: the requests the
\* caller may pass to Send, the EHLO responses the server may give, and the
\* number of Send calls.
\* Sessions: few requests, every EHLO response of up to MaxExtLines lines,
\* MaxSends calls.
SessionWorld ==
    [requests |-> {r \in [From : {AddrA}, To : {<<AddrA>>}, Cc : {<<AddrC>>},
                          Bcc : {<<>>, <<AddrB>>}, StartTLS : BOOLEAN,
                          TLSConfig : {NilConfig, CallerConfig},
                          Subject : {SubjectHi}, Header : {NoHeader},
                          Body : {BodyText}] :
                     r.TLSConfig.set => r.StartTLS /\ r.Bcc = <<>>},
     ehloMsgs |-> {EhloMsg(ls) : ls \in SeqsUpTo(ExtLines, MaxExtLines)},
     sends |-> MaxSends]

\* Recipients: every To list of up to MaxTo addresses, with and without Bcc
\* and Cc, against a server with one EHLO response, one call.
RcptWorld ==
    [requests |-> [From : {AddrA}, To : SeqsUpTo({AddrA, AddrEvil}, MaxTo),
                   Cc : {<<>>, <<AddrC>>}, Bcc : {<<>>, <<AddrB>>},
                   StartTLS : BOOLEAN, TLSConfig : {NilConfig},
                   Subject : {SubjectHi}, Header : {NoHeader}, Body : {BodyText}],
     ehloMsgs |-> {EhloMsg(<<<<"STARTTLS">>, <<"8BITMIME">>>>)},
     sends |-> 1]

\* Messages: every Header with one To entry, the Headers of at most one key
\* with two To entries, and STARTTLS with the Header NewRequest makes,
\* against a server with one EHLO response, one call.
WriteWorld ==
    [requests |-> {r \in [From : {AddrA}, To : {<<AddrA>>, <<AddrA, AddrB>>},
                          Cc : {<<AddrC>>}, Bcc : {<<>>}, StartTLS : BOOLEAN,
                          TLSConfig : {NilConfig}, Subject : {SubjectHi},
                          Header : Headers, Body : {BodyText}] :
                     /\ r.StartTLS => r.Header = NoHeader /\ Len(r.To) = 1
                     /\ Len(r.To) > 1 => Cardinality(r.Header) <= 1},
     ehloMsgs |-> {EhloMsg(<<<<"STARTTLS">>>>)},
     sends |-> 1]

\* The replies a server gives where the client expects expectCode: the
\* expected code itself, its neighbour 251 and the rejection 550.
Replies(expectCode) ==
    (IF expectCode = 25 THEN {250} ELSE {expectCode}) \cup {251, 550}

\* The outcome of one command exchange: the write failed (wr = FALSE), the
\* read failed (code = 0), or a reply with a code was read.
ExecOutcomes(expectCode) ==
    {[wr |-> FALSE, code |-> 0]} \cup [wr : {TRUE}, code : Replies(expectCode) \cup {0}]

\* MX hosts, in the resolver's order.
MXPool == <<<<"mx1.example.com">>, <<"mx2.example.com">>, <<"mx3.example.com">>>>

\* Outcomes of net.LookupMX: records, an error that is no *net.DNSError, or a
\* *net.DNSError with the flags the resolver sets (at most one of them).
LookupOutcomes ==
    {[ok |-> TRUE, recs |-> SubSeq(MXPool, 1, n), dns |-> FALSE,
      IsTimeout |-> FALSE, IsTemporary |-> FALSE, IsNotFound |-> FALSE] : n \in 0..MaxMX}
    \cup
    {[ok |-> FALSE, recs |-> <<>>, dns |-> FALSE,
      IsTimeout |-> FALSE, IsTemporary |-> FALSE, IsNotFound |-> FALSE]}
    \cup
    {[ok |-> FALSE, recs |-> <<>>, dns |-> TRUE,
      IsTimeout |-> f = "timeout", IsTemporary |-> f = "temporary",
      IsNotFound |-> f = "notfound"] : f \in {"timeout", "temporary", "notfound", "other"}}

NoLookup ==
    [ok |-> TRUE, recs |-> <<>>, dns |-> FALSE,
     IsTimeout |-> FALSE, IsTemporary |-> FALSE, IsNotFound |-> FALSE]

\* ------------------------------------------------------------------ errors
Nil == [kind |-> "nil", at |-> "", code |-> 0]
Err(kind, at, code) == [kind |-> kind, at |-> at, code |-> code]

\* net.SplitHostPort: the last colon separates host and port.
SplitHostPort(hostport) ==
    LET i == LastIndexOf(hostport, COLON)
    IN  IF i = 0
        THEN [host |-> <<>>, port |-> <<>>, err |-> Err("missing port", "SplitHostPort", 0)]
        ELSE [host |-> SubSeq(hostport, 1, i - 1),
              port |-> SubSeq(hostport, i + 1, Len(hostport)), err |-> Nil]

\* A fallback that leaves the candidate list empty.
mxFallbackNone(h) == <<>>

\* The candidate list dial falls back to when the lookup finds no MX record.
mxFallback(h) == <<h>>

\* The address dial hands to net.Dial for an MX host.
dialAddr(mx, p) == mx \o <<COLON>> \o p

\* (*net.DNSError).Temporary and Timeout.
Temporary(de) == de.IsTimeout \/ de.IsTemporary
Timeout(de) == de.IsTimeout

\* The backoff of the lookup loop, in milliseconds.
FirstDelay == 5
MaxDelay == 1000
NextDelay(delay) ==
    LET d == IF delay = 0 THEN FirstDelay ELSE delay * 2
    IN  IF d > MaxDelay THEN MaxDelay ELSE d

\* A match on the first digit of the reply code only.
CodeMatchesFirstDigit(expectCode, code) ==
    \/ (expectCode < 10 /\ code \div 100 = expectCode)
    \/ (10 <= expectCode /\ expectCode < 100 /\ code \div 100 = expectCode \div 10)
    \/ (100 <= expectCode /\ code \div 100 = expectCode \div 100)

\* textproto's match of a reply code against expectCode (a 1, 2 or 3 digit
\* prefix), as ReadResponse and ReadCodeLine apply it.
CodeMatches(expectCode, code) ==
    ~ \/ (1 <= expectCode /\ expectCode < 10 /\ code \div 100 # expectCode)
      \/ (10 <= expectCode /\ expectCode < 100 /\ code \div 10 # expectCode)
      \/ (100 <= expectCode /\ expectCode < 1000 /\ code # expectCode)

\* The error execCmd returns for an outcome.
execCmd(expectCode, cmd, out) ==
    IF ~out.wr THEN Err("io", cmd, 0)
    ELSE IF out.code = 0 THEN Err("io", cmd, 0)
    ELSE IF CodeMatches(expectCode, out.code) THEN Nil
    ELSE Err("code", cmd, out.code)

\* ------------------------------------------------------------------- state
VARIABLES
    world,        \* which caller and server this run has: "session" or "rcpt"
    remoteHost,   \* Client.remoteHost
    localHost,    \* Client.localHost
    ext,          \* Client.ext (a nil map reads as the empty map)
    auth,         \* Client.auth (nil is the empty list)
    pc,           \* where the current Send call stands
    sendNo,       \* number of Send calls started on the Client
    req,          \* the Request of the current Send
    tempDelay,    \* dial's backoff, in milliseconds
    lastLookup,   \* the outcome of the latest net.LookupMX of this dial
    mxRecords,    \* dial's candidate list
    mxIdx,        \* position of the range loop over mxRecords
    dials,        \* addresses handed to net.Dial by this dial, in order
    netConn,      \* the socket: "nil", "open" or "closed"
    tlsUp,        \* TRUE once startTLS swapped the transport for TLS
    wire,         \* the exchanges on the current connection, in order
    greets,       \* the successful greetings on the current connection, in order
    rcptIdx,      \* position of the RCPT loops over To, then Bcc
    tlsCfg,       \* the configuration startTLS handed to tls.Client
    data,         \* the writes Request.Write made to the DotWriter, in order
    ret,          \* what Send returned (None while it runs)
    closing,      \* what the deferred conn.close of this Send did
    clients,      \* concurrent runs: ext and auth of each Client
    calls         \* concurrent runs: each Send call's Client, position and commands

client == <<world, remoteHost, localHost, ext, auth>>
dialVars == <<tempDelay, lastLookup, mxRecords, mxIdx, dials>>
vars == <<world, remoteHost, localHost, ext, auth, pc, sendNo, req, tempDelay,
          lastLookup, mxRecords, mxIdx, dials, netConn, tlsUp, wire, greets, rcptIdx,
          tlsCfg, data, ret, closing, clients, calls>>
\* The state of one Send at a time, and the state of concurrent Sends.
seqVars == <<world, remoteHost, localHost, ext, auth, pc, sendNo, req, tempDelay,
             lastLookup, mxRecords, mxIdx, dials, netConn, tlsUp, wire, greets, rcptIdx,
             tlsCfg, data, ret, closing>>
concVars == <<clients, calls>>

None == [kind |-> "none", at |-> "", code |-> 0]
Panic == [kind |-> "panic", at |-> "ReadCodeLine", code |-> 0]
\* The caller and server of this run.
TheWorld ==
    IF world = "session" THEN SessionWorld
    ELSE IF world = "rcpt" THEN RcptWorld
    ELSE WriteWorld

\* No conn.close has run.
NoClose == [calls |-> <<>>, results |-> <<>>, err |-> "nil"]

NoRequest ==
    [From |-> <<>>, To |-> <<>>, Cc |-> <<>>, Bcc |-> <<>>, StartTLS |-> FALSE,
     TLSConfig |-> NilConfig, Subject |-> <<>>, Header |-> NoHeader, Body |-> <<>>]

host == SplitHostPort(remoteHost).host
port == SplitHostPort(remoteHost).port

\* Concurrent runs: two Send calls, each on a Client of its own or both on
\* one Client.
Calls == {1, 2}
Clients == {1, 2}

\* The Client a call is made on.
clientOf(independent, g) == IF independent THEN g ELSE 1

\* A call that has not started, on Client c.
NewCall(c) ==
    [cl |-> c, pc |-> "idle", StartTLS |-> FALSE, tlsUp |-> FALSE, greets |-> <<>>,
     cmds |-> <<>>]

\* NewClient, with the local identifier of the Client, before any Send.
InitClient ==
    /\ remoteHost \in RemoteHosts
    /\ localHost \in LocalHosts
    /\ ext = {}
    /\ auth = <<>>
    /\ pc = "idle"
    /\ sendNo = 0
    /\ req = NoRequest
    /\ tempDelay = 0
    /\ lastLookup = NoLookup
    /\ mxRecords = <<>>
    /\ mxIdx = 1
    /\ dials = <<>>
    /\ netConn = "nil"
    /\ tlsUp = FALSE
    /\ wire = <<>>
    /\ greets = <<>>
    /\ rcptIdx = 1
    /\ tlsCfg = NilConfig
    /\ data = <<>>
    /\ ret = None
    /\ closing = NoClose
    /\ clients = [c \in Clients |-> [ext |-> {}, auth |-> <<>>]]
    /\ calls \in {[g \in Calls |-> NewCall(clientOf(i, g))] :
                    i \in IF world = "conc" THEN BOOLEAN ELSE {TRUE}}

Init == world = "session" /\ InitClient

InitRcpt == world = "rcpt" /\ InitClient

InitWrite == world = "write" /\ InitClient

InitConc ==
    /\ world = "conc"
    /\ InitClient
    /\ remoteHost = <<"mail.example.com", COLON, "25">>
    /\ localHost = <<"localhost">>

\* One exchange as the wire saw it.
Exchange(cmd, arg, bit8, out) ==
    [cmd |-> cmd, arg |-> arg, bit8 |-> bit8, tls |-> tlsUp,
     wr |-> out.wr, code |-> out.code]

\* What the two Close calls of conn.close return, were they made.
CloseOutcomes == [text : {"nil", "textErr"}, net : {"nil", "netErr"}]

\* conn.close: textConn.Close, and netConn.Close unless the first failed;
\* the calls it makes, what each returned, and the error it returns.
connClose(o) ==
    IF o.text # "nil"
    THEN [calls |-> <<"textConn.Close">>, results |-> <<o.text>>, err |-> o.text]
    ELSE [calls |-> <<"textConn.Close", "netConn.Close">>,
          results |-> <<o.text, o.net>>, err |-> o.net]

\* A Send whose result is the error of conn.close when its body returned nil.
deferredReturnCloseErr(e, closeErr) ==
    IF e.kind = "nil" /\ closeErr # "nil" THEN [kind |-> "close", at |-> closeErr, code |-> 0]
    ELSE e

\* The result of Send when its body returns e and the deferred conn.close
\* returns closeErr: the defer statement drops what conn.close returns.
deferredReturn(e, closeErr) == e

\* A return of Send after dial succeeded: the deferred conn.close runs.
\* textproto's Conn.Close closes the stream it wraps, so the socket is
\* released by the first call whatever it returns.
ReturnClose(e) ==
    \E o \in CloseOutcomes :
        /\ closing' = connClose(o)
        /\ ret' = deferredReturn(e, connClose(o).err)
        /\ pc' = "returned"
        /\ netConn' = "closed"

\* A return of Send from dial: there is no conn to close.
ReturnDial(e) ==
    /\ ret' = e
    /\ pc' = "returned"
    /\ netConn' = netConn
    /\ closing' = closing

\* ----------------------------------------------------------------- actions
\* The caller has Send's result; the locals of the call are gone.
Returned ==
    /\ pc = "returned"
    /\ pc' = "idle"
    /\ req' = NoRequest
    /\ tempDelay' = 0
    /\ lastLookup' = NoLookup
    /\ mxRecords' = <<>>
    /\ mxIdx' = 1
    /\ dials' = <<>>
    /\ netConn' = "nil"
    /\ tlsUp' = FALSE
    /\ wire' = <<>>
    /\ greets' = <<>>
    /\ rcptIdx' = 1
    /\ tlsCfg' = NilConfig
    /\ data' = <<>>
    /\ ret' = None
    /\ closing' = NoClose
    /\ UNCHANGED <<concVars, client, sendNo>>

\* Send is called with a request, and dial splits the remote identifier.
SendCall ==
    /\ pc = "idle"
    /\ sendNo < TheWorld.sends
    /\ \E r \in TheWorld.requests : req' = r
    /\ sendNo' = sendNo + 1
    /\ IF SplitHostPort(remoteHost).err # Nil
       THEN /\ ret' = SplitHostPort(remoteHost).err
            /\ pc' = "returned"
       ELSE /\ ret' = None
            /\ pc' = "lookup"
    /\ UNCHANGED <<concVars, client, dialVars, netConn, tlsUp, wire, greets, rcptIdx, tlsCfg, data,
                   closing>>

\* One pass of dial's lookup loop.
LookupMX ==
    /\ pc = "lookup"
    /\ \E o \in LookupOutcomes :
        /\ lastLookup' = o
        /\ IF o.ok
           THEN /\ mxRecords' = o.recs
                /\ pc' = "connect"
                /\ UNCHANGED <<tempDelay, ret>>
           ELSE IF ~o.dns
           THEN /\ ret' = Err("lookup", "LookupMX", 0)
                /\ pc' = "returned"
                /\ UNCHANGED <<tempDelay, mxRecords>>
           ELSE IF Temporary(o)
           THEN /\ tempDelay' = NextDelay(tempDelay)
                /\ UNCHANGED <<pc, ret, mxRecords>>
           ELSE IF Timeout(o)
           THEN /\ ret' = Err("dns", "LookupMX", 0)
                /\ pc' = "returned"
                /\ UNCHANGED <<tempDelay, mxRecords>>
           ELSE IF o.IsNotFound
           THEN /\ mxRecords' = mxFallback(host)
                /\ pc' = "connect"
                /\ UNCHANGED <<tempDelay, ret>>
           ELSE UNCHANGED <<pc, ret, tempDelay, mxRecords>>
    /\ UNCHANGED <<concVars, client, sendNo, req, mxIdx, dials, netConn, tlsUp, wire, greets,
                   rcptIdx, tlsCfg, data, closing>>

\* One pass of dial's range loop over mxRecords: net.Dial to the candidate.
\* The loop ends at the first success; after the last failure dial returns
\* that error.
DialMX ==
    /\ pc = "connect"
    /\ mxIdx <= Len(mxRecords)
    /\ dials' = Append(dials, dialAddr(mxRecords[mxIdx], port))
    /\ \E ok \in BOOLEAN :
        IF ok
        THEN /\ netConn' = "open"
             /\ pc' = "greeting"
             /\ UNCHANGED <<mxIdx, ret>>
        ELSE /\ mxIdx' = mxIdx + 1
             /\ netConn' = netConn
             /\ IF mxIdx = Len(mxRecords)
                THEN /\ ret' = Err("dial", "Dial", 0)
                     /\ pc' = "returned"
                ELSE UNCHANGED <<pc, ret>>
    /\ UNCHANGED <<concVars, client, sendNo, req, tempDelay, lastLookup, mxRecords, tlsUp, wire,
                   greets, rcptIdx, tlsCfg, data, closing>>

\* The range loop over an empty mxRecords: err and netConn are both nil, and
\* ReadCodeLine on the nil connection panics.
DialNone ==
    /\ pc = "connect"
    /\ mxRecords = <<>>
    /\ ret' = Panic
    /\ pc' = "panicked"
    /\ UNCHANGED <<concVars, client, sendNo, req, dialVars, netConn, tlsUp, wire, greets, rcptIdx,
                   tlsCfg, data, closing>>

\* dial reads the server greeting and requires 220.  On success dial returns
\* the conn and its locals are gone; on failure it returns the error without
\* closing netConn.
Greeting ==
    /\ pc = "greeting"
    /\ \E code \in Replies(220) \cup {0} :
        /\ wire' = Append(wire, Exchange("GREETING", <<>>, FALSE,
                                         [wr |-> TRUE, code |-> code]))
        /\ IF code # 0 /\ CodeMatches(220, code)
           THEN /\ pc' = "ehlo"
                /\ tempDelay' = 0
                /\ lastLookup' = NoLookup
                /\ mxRecords' = <<>>
                /\ mxIdx' = 1
                /\ dials' = <<>>
                /\ UNCHANGED <<ret, netConn, closing>>
           ELSE /\ ReturnDial(IF code = 0 THEN Err("io", "GREETING", 0)
                              ELSE Err("code", "GREETING", code))
                /\ UNCHANGED dialVars
    /\ UNCHANGED <<concVars, client, sendNo, req, tlsUp, tlsCfg, data, greets, rcptIdx>>

\* Send's test before startTLS: the capability map has STARTTLS and the
\* request asks for it.  startTLS's own hello is followed by mail.
AfterHello(e, r, up) ==
    IF ~up /\ HasKey(e, <<"STARTTLS">>) /\ r.StartTLS THEN "starttls" ELSE "mail"

\* hello, first half: validateLine, then EHLO.  On 250 the response is
\* parsed into c.ext, c.auth is set when AUTH is advertised, and hello
\* returns; on any error hello goes on to HELO.
Ehlo ==
    /\ pc = "ehlo"
    /\ IF validateLine(localHost) # "nil"
       THEN /\ ReturnClose(Err(validateLine(localHost), "hello", 0))
            /\ UNCHANGED <<ext, auth, wire, greets>>
       ELSE \E out \in ExecOutcomes(250) :
            /\ wire' = Append(wire, Exchange("EHLO", localHost, FALSE, out))
            /\ IF execCmd(250, "EHLO", out) = Nil
               THEN \E msg \in TheWorld.ehloMsgs :
                    /\ greets' = Append(greets, [by |-> "EHLO", msg |-> msg])
                    /\ ext' = parseExt(msg)
                    /\ auth' = IF HasKey(parseExt(msg), <<"AUTH">>)
                               THEN Split(Get(parseExt(msg), <<"AUTH">>), SP)
                               ELSE auth
                    /\ pc' = AfterHello(parseExt(msg), req, tlsUp)
                    /\ UNCHANGED <<ret, netConn, closing>>
               ELSE /\ pc' = "helo"
                    /\ UNCHANGED <<ext, auth, greets, ret, netConn, closing>>
    /\ UNCHANGED <<concVars, world, remoteHost, localHost, sendNo, req, dialVars, tlsUp, tlsCfg, data,
                   rcptIdx>>

\* hello, second half: HELO after a failed EHLO.  On 250 hello returns nil
\* and leaves c.ext and c.auth as they were.
Helo ==
    /\ pc = "helo"
    /\ \E out \in ExecOutcomes(250) :
        /\ wire' = Append(wire, Exchange("HELO", localHost, FALSE, out))
        /\ IF execCmd(250, "HELO", out) = Nil
           THEN /\ pc' = AfterHello(ext, req, tlsUp)
                /\ greets' = Append(greets, [by |-> "HELO", msg |-> <<>>])
                /\ UNCHANGED <<ret, netConn, closing>>
           ELSE /\ ReturnClose(execCmd(250, "HELO", out))
                /\ UNCHANGED greets
    /\ UNCHANGED <<concVars, client, sendNo, req, dialVars, tlsUp, tlsCfg, data, rcptIdx>>

\* The configuration Send passes to startTLS: the request's, or a default
\* naming c.remoteHost.
sendTLSConfig(r, remote) ==
    IF r.TLSConfig = NilConfig THEN Config(remote) ELSE r.TLSConfig

\* startTLS: STARTTLS requires 220, then the transport is swapped and hello
\* runs again with c.localHost.
StartTLS ==
    /\ pc = "starttls"
    /\ \E out \in ExecOutcomes(220) :
        /\ wire' = Append(wire, Exchange("STARTTLS", <<>>, FALSE, out))
        /\ IF execCmd(220, "STARTTLS", out) = Nil
           THEN /\ tlsUp' = TRUE
                /\ tlsCfg' = sendTLSConfig(req, remoteHost)
                /\ pc' = "ehlo"
                /\ UNCHANGED <<ret, netConn, closing>>
           ELSE /\ ReturnClose(execCmd(220, "STARTTLS", out))
                /\ UNCHANGED <<tlsUp, tlsCfg>>
    /\ UNCHANGED <<concVars, client, sendNo, req, dialVars, data, greets, rcptIdx>>

\* mail's choice of command text: BODY=8BITMIME when c.ext has 8BITMIME.
mailBody8(e) == HasKey(e, <<"8BITMIME">>)

\* Recipients that take in the Cc entries as well.
RecipientsWithCc(r) == r.To \o r.Cc \o r.Bcc

\* The recipients Send issues RCPT TO for: To, then Bcc.
Recipients(r) == r.To \o r.Bcc

\* mail: MAIL FROM requires 250.
Mail ==
    /\ pc = "mail"
    /\ \E out \in ExecOutcomes(250) :
        /\ wire' = Append(wire, Exchange("MAIL", req.From, mailBody8(ext), out))
        /\ IF execCmd(250, "MAIL", out) = Nil
           THEN /\ pc' = IF Recipients(req) = <<>> THEN "data" ELSE "rcpt"
                /\ UNCHANGED <<ret, netConn, closing>>
           ELSE ReturnClose(execCmd(250, "MAIL", out))
    /\ UNCHANGED <<concVars, client, sendNo, req, dialVars, tlsUp, tlsCfg, data, greets, rcptIdx>>

\* One pass of the RCPT loops: RCPT TO requires 25x.
Rcpt ==
    /\ pc = "rcpt"
    /\ \E out \in ExecOutcomes(25) :
        /\ wire' = Append(wire, Exchange("RCPT", Recipients(req)[rcptIdx], FALSE, out))
        /\ IF execCmd(25, "RCPT", out) = Nil
           THEN /\ rcptIdx' = rcptIdx + 1
                /\ pc' = IF rcptIdx = Len(Recipients(req)) THEN "data" ELSE "rcpt"
                /\ UNCHANGED <<ret, netConn, closing>>
           ELSE /\ ReturnClose(execCmd(25, "RCPT", out))
                /\ UNCHANGED rcptIdx
    /\ UNCHANGED <<concVars, client, sendNo, req, dialVars, tlsUp, tlsCfg, data, greets>>

\* DATA requires 354.
Data ==
    /\ pc = "data"
    /\ \E out \in ExecOutcomes(354) :
        /\ wire' = Append(wire, Exchange("DATA", <<>>, FALSE, out))
        /\ IF execCmd(354, "DATA", out) = Nil
           THEN /\ pc' = "body"
                /\ UNCHANGED <<ret, netConn, closing>>
           ELSE ReturnClose(execCmd(354, "DATA", out))
    /\ UNCHANGED <<concVars, client, sendNo, req, dialVars, tlsUp, tlsCfg, data, greets, rcptIdx>>

\* The message through the DotWriter (r.Write, then w.Close, either of which
\* may fail), then the reply, which must be 250.
\* r.Write makes its writes in order and stops at the first that fails;
\* Header.WriteSubset, called once the envelope is written, deletes the
\* excluded keys from r.Header itself.
Body ==
    /\ pc = "body"
    /\ \E out \in ExecOutcomes(250) :
       \E order \in KeyOrders(exclude(req.Header, defaultExcludeHeaders)) :
       \E n \in 0..Len(requestWrite(req, order)) :
        /\ out.wr => n = Len(requestWrite(req, order))
        /\ data' = SubSeq(requestWrite(req, order), 1, n)
        /\ req' = IF n >= Len(envelopeWrites(req))
                  THEN [req EXCEPT !.Header = exclude(req.Header, defaultExcludeHeaders)]
                  ELSE req
        /\ wire' = Append(wire, Exchange("BODY", <<>>, FALSE, out))
        /\ IF execCmd(250, "BODY", out) = Nil
           THEN /\ pc' = "quit"
                /\ UNCHANGED <<ret, netConn, closing>>
           ELSE ReturnClose(execCmd(250, "BODY", out))
    /\ UNCHANGED <<concVars, client, sendNo, dialVars, tlsUp, tlsCfg, greets, rcptIdx>>

\* QUIT requires 221; Send returns its error, or nil.
Quit ==
    /\ pc = "quit"
    /\ \E out \in ExecOutcomes(221) :
        /\ wire' = Append(wire, Exchange("QUIT", <<>>, FALSE, out))
        /\ ReturnClose(execCmd(221, "QUIT", out))
    /\ UNCHANGED <<concVars, client, sendNo, req, dialVars, tlsUp, tlsCfg, data, greets, rcptIdx>>

Next ==
    \/ SendCall
    \/ Returned
    \/ LookupMX
    \/ DialMX
    \/ DialNone
    \/ Greeting
    \/ Ehlo
    \/ Helo
    \/ StartTLS
    \/ Mail
    \/ Rcpt
    \/ Data
    \/ Body
    \/ Quit

Spec == Init /\ [][Next]_vars

SpecRcpt == InitRcpt /\ [][Next]_vars

SpecWrite == InitWrite /\ [][Next]_vars

\* -------------------------------------------------------- concurrent Sends
\* Send calls running at once.  A call touches its Client in hello, which
\* writes c.ext and c.auth, in Send's test before startTLS and in mail,
\* which read c.ext; these are the steps, each with its exchange.  dial
\* reads only c.remoteHost and the steps after MAIL FROM use no field of
\* the Client, so a call starts with its connection greeted and is done
\* once MAIL FROM is written.

\* EHLO responses of the servers the calls talk to.
ConcEhloMsgs == {EhloMsg(<<>>), EhloMsg(<<<<"STARTTLS">>, <<"8BITMIME">>>>)}

\* One capability state for all Clients.
receiverGlobal(c) == 1

\* The Client whose ext and auth hello writes: its receiver.
receiver(c) == c

Step(g, to, cmd) == [calls EXCEPT ![g].pc = to, ![g].cmds = Append(@, cmd)]

\* Send is called; dial has returned the conn.
ConcSend(g) ==
    /\ calls[g].pc = "idle"
    /\ \E b \in BOOLEAN : calls' = [calls EXCEPT ![g].pc = "ehlo", ![g].StartTLS = b]
    /\ UNCHANGED <<seqVars, clients>>

\* hello's EHLO: on 250 c.auth and c.ext are written.
ConcEhlo(g) ==
    /\ calls[g].pc = "ehlo"
    /\ validateLine(localHost) = "nil"
    /\ \E ok \in BOOLEAN :
        IF ok
        THEN \E msg \in ConcEhloMsgs :
             /\ clients' = [clients EXCEPT ![receiver(calls[g].cl)] =
                    [ext |-> parseExt(msg),
                     auth |-> IF HasKey(parseExt(msg), <<"AUTH">>)
                              THEN Split(Get(parseExt(msg), <<"AUTH">>), SP)
                              ELSE @.auth]]
             /\ calls' = [Step(g, IF calls[g].tlsUp THEN "mail" ELSE "tlstest", "EHLO")
                            EXCEPT ![g].greets = Append(@, [by |-> "EHLO", msg |-> msg])]
        ELSE /\ calls' = Step(g, "helo", "EHLO")
             /\ UNCHANGED clients
    /\ UNCHANGED seqVars

\* hello's HELO after a failed EHLO: the Client is left as it is.
ConcHelo(g) ==
    /\ calls[g].pc = "helo"
    /\ \E ok \in BOOLEAN :
        IF ok
        THEN calls' = [Step(g, IF calls[g].tlsUp THEN "mail" ELSE "tlstest", "HELO")
                         EXCEPT ![g].greets = Append(@, [by |-> "HELO", msg |-> <<>>])]
        ELSE calls' = Step(g, "done", "HELO")
    /\ UNCHANGED <<seqVars, clients>>

\* Send's test before startTLS reads c.ext.
ConcTLSTest(g) ==
    /\ calls[g].pc = "tlstest"
    /\ calls' = [calls EXCEPT ![g].pc =
                    AfterHello(clients[calls[g].cl].ext, calls[g], FALSE)]
    /\ UNCHANGED <<seqVars, clients>>

\* startTLS: on 220 the transport is swapped and hello runs again.
ConcStartTLS(g) ==
    /\ calls[g].pc = "starttls"
    /\ \E ok \in BOOLEAN :
        IF ok
        THEN calls' = [Step(g, "ehlo", "STARTTLS") EXCEPT ![g].tlsUp = TRUE]
        ELSE calls' = Step(g, "done", "STARTTLS")
    /\ UNCHANGED <<seqVars, clients>>

\* mail reads c.ext for BODY=8BITMIME.
ConcMail(g) ==
    /\ calls[g].pc = "mail"
    /\ calls' = Step(g, "done", IF mailBody8(clients[calls[g].cl].ext)
                                THEN "MAIL BODY=8BITMIME" ELSE "MAIL")
    /\ UNCHANGED <<seqVars, clients>>

NextConc ==
    \E g \in Calls :
        \/ ConcSend(g)
        \/ ConcEhlo(g)
        \/ ConcHelo(g)
        \/ ConcTLSTest(g)
        \/ ConcStartTLS(g)
        \/ ConcMail(g)

SpecConc == InitConc /\ [][NextConc]_vars

\* ------------------------------------------------------------------ claims
\* What the statements below read off the wire.
Range(q) == {q[i] : i \in DOMAIN q}
Last(q) == q[Len(q)]

\* The reply code the protocol mandates for each step.
Mandated(cmd) ==
    CASE cmd = "GREETING" -> {220}
      [] cmd = "EHLO" -> {250}
      [] cmd = "HELO" -> {250}
      [] cmd = "STARTTLS" -> {220}
      [] cmd = "MAIL" -> {250}
      [] cmd = "RCPT" -> 250..259
      [] cmd = "DATA" -> {354}
      [] cmd = "BODY" -> {250}
      [] cmd = "QUIT" -> {221}

\* The exchange was written and answered with its mandated code.
Answered(x) == x.wr /\ x.code \in Mandated(x.cmd)

\* The steps that may follow a step that got its mandated code.
MayFollow(cmd) ==
    CASE cmd = "GREETING" -> {"EHLO"}
      [] cmd = "EHLO" -> {"STARTTLS", "MAIL"}
      [] cmd = "HELO" -> {"STARTTLS", "MAIL"}
      [] cmd = "STARTTLS" -> {"EHLO"}
      [] cmd = "MAIL" -> {"RCPT", "DATA"}
      [] cmd = "RCPT" -> {"RCPT", "DATA"}
      [] cmd = "DATA" -> {"BODY"}
      [] cmd = "BODY" -> {"QUIT"}
      [] cmd = "QUIT" -> {}

\* The error Send returns for an exchange that did not get its code.
ErrorOf(x) ==
    IF x.wr /\ x.code # 0 THEN Err("code", x.cmd, x.code) ELSE Err("io", x.cmd, 0)

\* C1 (a step is one exchange of Send with the server: the greeting read, one
\* execCmd, or the message body with its reply): in every run of Send the
\* wire starts with the 220 greeting and each later step follows a step that
\* got its mandated code, in the order EHLO
\* (or HELO after a failed EHLO), at most one STARTTLS followed by EHLO/HELO,
\* MAIL, one RCPT per recipient, DATA, body, QUIT; a step other than EHLO
\* that fails is the last exchange on the connection and Send has returned
\* its error, and Send returns nil only after QUIT got 221.
C1_CommandOrder ==
    /\ wire # <<>> => wire[1].cmd = "GREETING"
    /\ \A i \in 1..(Len(wire) - 1) :
        IF Answered(wire[i])
        THEN wire[i + 1].cmd \in MayFollow(wire[i].cmd)
        ELSE wire[i].cmd = "EHLO" /\ wire[i + 1].cmd = "HELO"
    /\ Cardinality({i \in DOMAIN wire : wire[i].cmd = "STARTTLS"}) <= 1
    /\ Cardinality({i \in DOMAIN wire : wire[i].cmd = "RCPT"}) <= Len(req.To) + Len(req.Bcc)
    /\ (\E i \in DOMAIN wire : wire[i].cmd = "DATA") =>
        Cardinality({i \in DOMAIN wire : wire[i].cmd = "RCPT"}) = Len(req.To) + Len(req.Bcc)
    /\ (wire # <<>> /\ ~Answered(Last(wire))) =>
        IF Last(wire).cmd = "EHLO"
        THEN pc = "helo" /\ ret = None
        ELSE pc = "returned" /\ ret = ErrorOf(Last(wire))
    /\ ret = Nil => pc = "returned" /\ wire # <<>> /\ Last(wire).cmd = "QUIT"
                    /\ Answered(Last(wire))

\* C1's case: a Send that went through STARTTLS and a HELO fallback and
\* returned nil.
C1_Witness ==
    /\ pc = "returned"
    /\ ret = Nil
    /\ \E i \in DOMAIN wire : wire[i].cmd = "STARTTLS"
    /\ \E i \in DOMAIN wire : wire[i].cmd = "HELO"
    /\ \E i \in DOMAIN wire : wire[i].cmd = "RCPT"

\* C9: when the MX lookup fails with a not-found resolver error, the list of
\* connect targets is exactly one entry, the original host of the remote
\* identifier, and the address dialled is that host on the original port.
C9_NotFoundFallback ==
    (~lastLookup.ok /\ lastLookup.IsNotFound) =>
        /\ mxRecords = <<SplitHostPort(remoteHost).host>>
        /\ Len(dials) <= 1
        /\ \A i \in DOMAIN dials :
            /\ dials[i] = SplitHostPort(remoteHost).host \o <<COLON>>
                          \o SplitHostPort(remoteHost).port
            /\ dials[i] = remoteHost

\* C9's case: the lookup ended not-found and dial has dialled its target.
C9_Witness ==
    /\ ~lastLookup.ok
    /\ lastLookup.IsNotFound
    /\ Len(dials) = 1

\* The RCPT exchanges on the wire, in order.
RcptsOnWire == SelectSeq(wire, LAMBDA x : x.cmd = "RCPT")

\* C10: the RCPT TO commands on the wire are, in order, a prefix of the To
\* entries followed by the Bcc entries, none is a Cc entry, every one but
\* the last got 25x, DATA is written only after all of them got 25x, and a
\* RCPT that did not get 25x is the last exchange of the connection, with
\* Send returning its error.
C10_RcptPerRecipient ==
    LET want == req.To \o req.Bcc
        rc == RcptsOnWire
    IN  /\ Len(rc) <= Len(want)
        /\ \A i \in DOMAIN rc : rc[i].arg = want[i] /\ rc[i].arg \notin Range(req.Cc)
        /\ \A i \in 1..(Len(rc) - 1) : rc[i].wr /\ rc[i].code \in 250..259
        /\ (\E i \in DOMAIN wire : wire[i].cmd = "DATA") =>
            /\ Len(rc) = Len(want)
            /\ \A i \in DOMAIN rc : rc[i].wr /\ rc[i].code \in 250..259
        /\ (rc # <<>> /\ ~(Last(rc).wr /\ Last(rc).code \in 250..259)) =>
            /\ Last(wire) = Last(rc)
            /\ pc = "returned"
            /\ ret = ErrorOf(Last(rc))

\* C10's case: a To recipient and a Bcc recipient were accepted, one of them
\* with 251, a Cc entry was present, and a later RCPT was rejected.
C10_Witness ==
    /\ pc = "returned"
    /\ Len(req.To) = 2
    /\ req.Bcc # <<>>
    /\ req.Cc # <<>>
    /\ Len(RcptsOnWire) = 3
    /\ RcptsOnWire[1].code = 251
    /\ RcptsOnWire[3].code = 550
    /\ ret = Err("code", "RCPT", 550)

\* The string carries a CR or an LF.
HasCRLF(str) == \E i \in DOMAIN str : str[i] = CR \/ str[i] = LF

\* A command has been handed to the network on the current connection.
CommandWritten == \E i \in DOMAIN wire : wire[i].cmd # "GREETING"

\* C2: when the local identifier or a recipient (To or Bcc) of the request
\* contains CR or LF, no command is ever written on the connection, and a
\* Send that got its 220 greeting returns ErrCRLFContain.
C2_InjectionRejectedBeforeWrite ==
    (sendNo >= 1 /\ pc # "idle"
     /\ (HasCRLF(localHost) \/ \E a \in Range(req.To) \cup Range(req.Bcc) : HasCRLF(a)))
    => /\ ~CommandWritten
       /\ (pc = "returned" /\ wire # <<>> /\ Answered(wire[1])) =>
            ret = Err("ErrCRLFContain", "hello", 0)

\* C3: after a HELO that got 250 (EHLO having failed), the rest of the Send
\* writes no STARTTLS and its MAIL FROM carries no BODY=8BITMIME.
C3_HeloFallbackNoCapabilities ==
    \A i \in DOMAIN wire :
        (wire[i].cmd = "HELO" /\ Answered(wire[i])) =>
            \A j \in (i + 1)..Len(wire) :
                /\ wire[j].cmd # "STARTTLS"
                /\ wire[j].cmd = "MAIL" => ~wire[j].bit8

\* The capability map a greeting on the current connection gives.
CapsOfGreeting(g) == IF g.by = "EHLO" THEN parseExt(g.msg) ELSE {}

\* C4: STARTTLS is written only if the request has StartTLS=true and the
\* capability map obtained from the (plaintext) greeting on the current
\* connection advertises STARTTLS; otherwise the exchanges stay plaintext.
C4_StartTLSOnlyIfAdvertised ==
    LET attempted == pc = "starttls" \/ \E i \in DOMAIN wire : wire[i].cmd = "STARTTLS"
    IN  /\ attempted =>
            /\ req.StartTLS
            /\ greets # <<>>
            /\ HasKey(CapsOfGreeting(greets[1]), <<"STARTTLS">>)
        /\ ~attempted => \A i \in DOMAIN wire : ~wire[i].tls

\* C5: no return of Send leaves the socket it opened open.
C5_SocketClosedOnReturn == pc = "returned" => netConn # "open"

\* What a Client that never sent before would hold after the greetings of
\* the current connection: the map of the latest EHLO that got 250, and the
\* AUTH list of the latest such EHLO that advertised AUTH.
RECURSIVE FreshExt(_)
FreshExt(gs) ==
    IF gs = <<>> THEN {}
    ELSE IF Last(gs).by = "EHLO" THEN parseExt(Last(gs).msg)
    ELSE FreshExt(SubSeq(gs, 1, Len(gs) - 1))

RECURSIVE FreshAuth(_)
FreshAuth(gs) ==
    IF gs = <<>> THEN <<>>
    ELSE IF Last(gs).by = "EHLO" /\ HasKey(parseExt(Last(gs).msg), <<"AUTH">>)
    THEN Split(Get(parseExt(Last(gs).msg), <<"AUTH">>), SP)
    ELSE FreshAuth(SubSeq(gs, 1, Len(gs) - 1))

\* C6: in a second or later Send on the same Client, whether STARTTLS is
\* attempted and whether MAIL FROM carries BODY=8BITMIME is what the
\* greetings of this connection and the request give to a fresh Client, and
\* once this connection has greeted, the capability map and the AUTH list
\* hold nothing of an earlier call.
C6_SecondSendIndependent ==
    sendNo >= 2 =>
        /\ pc = "starttls" => HasKey(FreshExt(greets), <<"STARTTLS">>) /\ req.StartTLS
        /\ (pc = "mail" /\ ~tlsUp) =>
            ~(HasKey(FreshExt(greets), <<"STARTTLS">>) /\ req.StartTLS)
        /\ \A i \in DOMAIN wire :
            wire[i].cmd = "MAIL" => wire[i].bit8 = HasKey(FreshExt(greets), <<"8BITMIME">>)
        /\ greets # <<>> => ext = FreshExt(greets) /\ auth = FreshAuth(greets)

\* The name and the parameter string of an extension line.
NameOf(line) ==
    IF \E i \in DOMAIN line : line[i] = SP
    THEN SubSeq(line, 1, (CHOOSE i \in DOMAIN line :
                            line[i] = SP /\ \A j \in 1..(i - 1) : line[j] # SP) - 1)
    ELSE line

ParamsOf(line) ==
    IF \E i \in DOMAIN line : line[i] = SP
    THEN SubSeq(line, (CHOOSE i \in DOMAIN line :
                         line[i] = SP /\ \A j \in 1..(i - 1) : line[j] # SP) + 1, Len(line))
    ELSE <<>>

\* C7: after an EHLO that got 250, the capability map has exactly one entry
\* per extension line of the response: name -> parameters, or name -> "".
C7_EveryExtensionLineParsed ==
    (greets # <<>> /\ Last(greets).by = "EHLO") =>
        ext = {<<NameOf(l), ParamsOf(l)>> : l \in Range(LinesOf(Last(greets).msg))}

\* C8: dial makes a further MX lookup only after a temporary resolver error:
\* after a timeout or any other permanent error it does not look up again.
C8_OnlyTemporaryRetries ==
    (pc = "lookup" /\ ~lastLookup.ok) =>
        lastLookup.dns /\ lastLookup.IsTemporary /\ ~lastLookup.IsTimeout

\* C12: no EHLO, HELO, MAIL FROM or RCPT TO is handed to the network with an
\* argument that carries CR or LF.
C12_NoCRLFInCommandLine ==
    \A i \in DOMAIN wire :
        wire[i].cmd \in {"EHLO", "HELO", "MAIL", "RCPT"} => ~HasCRLF(wire[i].arg)

\* The position of the STARTTLS that got 220 on the current connection, or 0.
TLSAt ==
    IF \E i \in DOMAIN wire : wire[i].cmd = "STARTTLS" /\ Answered(wire[i])
    THEN CHOOSE i \in DOMAIN wire : wire[i].cmd = "STARTTLS" /\ Answered(wire[i])
    ELSE 0

\* C13: after a STARTTLS that got 220, every exchange runs over TLS, the
\* next command is EHLO, and MAIL FROM carries BODY=8BITMIME exactly when the
\* greeting made over TLS (the second of the connection; none for HELO)
\* advertised 8BITMIME.
C13_PostTLSCapabilitiesOnly ==
    TLSAt # 0 =>
        \A j \in (TLSAt + 1)..Len(wire) :
            /\ wire[j].tls
            /\ j = TLSAt + 1 => wire[j].cmd = "EHLO"
            /\ wire[j].cmd = "MAIL" =>
                /\ Len(greets) = 2
                /\ wire[j].bit8 = HasKey(CapsOfGreeting(greets[2]), <<"8BITMIME">>)

\* C14: after every successful greeting the capability map is the one that
\* greeting gave (empty for HELO) and the AUTH list is the space-split of its
\* AUTH entry, empty when it has none.
C14_CapabilitiesOfLatestGreeting ==
    greets # <<>> =>
        /\ ext = CapsOfGreeting(Last(greets))
        /\ auth = IF HasKey(ext, <<"AUTH">>) THEN Split(Get(ext, <<"AUTH">>), SP)
                  ELSE <<>>

\* C16: the addresses dialled are the candidates in list order, dial goes
\* on to the greeting with the first candidate that connected, returns the
\* dial error when the last candidate failed, and never leaves the connect
\* step with neither a connection nor an error.
C16_DialConnectionOrError ==
    /\ pc \in {"connect", "greeting"} =>
        /\ Len(dials) <= Len(mxRecords)
        /\ \A i \in DOMAIN dials : dials[i] = mxRecords[i] \o <<COLON>> \o port
    /\ pc = "greeting" => netConn = "open" /\ Len(dials) = mxIdx
    /\ (pc = "returned" /\ dials # <<>> /\ netConn = "nil") =>
        Len(dials) = Len(mxRecords) /\ ret = Err("dial", "Dial", 0)
    /\ pc = "panicked" => netConn = "open" \/ ret.kind \notin {"none", "panic"}

\* C15: a conn.close that ran called textConn.Close and then netConn.Close,
\* both of them whatever the first returned, and returned the first error
\* among the two results (nil when both returned nil).
C15_CloseBothFirstErrorWins ==
    closing.calls # <<>> =>
        /\ closing.calls = <<"textConn.Close", "netConn.Close">>
        /\ closing.err = IF closing.results[1] # "nil" THEN closing.results[1]
                         ELSE closing.results[2]

\* What the body of a returned Send gave, read off the wire: the error of the
\* last exchange when it did not get its code, nil after a QUIT that got 221,
\* and otherwise hello's refusal of the local identifier.
BodyResult ==
    IF ~Answered(Last(wire)) THEN ErrorOf(Last(wire))
    ELSE IF Last(wire).cmd = "QUIT" THEN Nil
    ELSE Err("ErrCRLFContain", "hello", 0)

\* C20: Send returns nil only when every exchange but a failed EHLO that
\* HELO made up for got its mandated code, QUIT included; a Send that wrote
\* QUIT had its message accepted with 250 and returns nil when QUIT got 221
\* and QUIT's error otherwise; and every return after dial has run
\* conn.close, left the socket closed, and is what the body returned
\* whatever conn.close returned.
C20_QuitErrorReturnedCloseErrorDropped ==
    /\ ret = Nil =>
        /\ pc = "returned"
        /\ Last(wire).cmd = "QUIT"
        /\ \A i \in DOMAIN wire : ~Answered(wire[i]) =>
            wire[i].cmd = "EHLO" /\ wire[i + 1].cmd = "HELO" /\ Answered(wire[i + 1])
    /\ (pc = "returned" /\ wire # <<>> /\ Last(wire).cmd = "QUIT") =>
        /\ wire[Len(wire) - 1].cmd = "BODY"
        /\ wire[Len(wire) - 1].wr /\ wire[Len(wire) - 1].code = 250
        /\ ret = IF Last(wire).wr /\ Last(wire).code = 221 THEN Nil
                 ELSE ErrorOf(Last(wire))
    /\ (pc = "returned" /\ wire # <<>> /\ Answered(wire[1])) =>
        /\ closing.calls # <<>>
        /\ netConn = "closed"
        /\ ret = BodyResult

\* C20's case: the message was accepted with 250, QUIT was answered 550,
\* conn.close failed, and Send returned.
C20_Witness ==
    /\ pc = "returned"
    /\ Len(wire) >= 2
    /\ Last(wire).cmd = "QUIT"
    /\ Last(wire).code = 550
    /\ wire[Len(wire) - 1].code = 250
    /\ closing.err # "nil"
    /\ ret = Err("code", "QUIT", 550)

\* C17: once STARTTLS got 220, the configuration of the TLS client is the
\* request's own when it has one, and otherwise names as ServerName the
\* host of the remote identifier, without the port.
C17_DefaultServerNameIsHost ==
    tlsUp =>
        IF req.TLSConfig.set
        THEN tlsCfg = req.TLSConfig
        ELSE tlsCfg.set /\ tlsCfg.ServerName = SplitHostPort(remoteHost).host

\* Request.Write made all its writes.
WroteAll == \E i \in DOMAIN wire : wire[i].cmd = "BODY" /\ wire[i].wr

\* The number of envelope lines: From, one per To, one per Cc, Subject.
EnvelopeLen == 1 + Len(req.To) + Len(req.Cc) + 1

\* The lines written for the Header: those after the envelope lines and
\* before the empty line and the body.
CustomLines == SubSeq(data, EnvelopeLen + 1, Len(data) - 2)

\* A character of a value as it is to appear in the line.
Blank(ch) == IF ch = CR \/ ch = LF THEN SP ELSE ch
IsBlank(ch) == ch \in {SP, TAB, CR, LF}

\* The line is "key: value\r\n" for the value with each CR and LF turned
\* into a space and the whitespace at both ends cut.
IsLineOf(line, key, value) ==
    \E a \in 1..(Len(value) + 1) : \E b \in (a - 1)..Len(value) :
        /\ \A i \in (1..(a - 1)) \cup ((b + 1)..Len(value)) : IsBlank(value[i])
        /\ b >= a => ~IsBlank(value[a]) /\ ~IsBlank(value[b])
        /\ line = key \o <<COLON, SP>> \o [i \in 1..(b - a + 1) |-> Blank(value[a + i - 1])]
                  \o <<CR, LF>>

\* The values of the Header, each with its key and its place in the list.
HeaderEntries(h) == UNION {{<<kv[1], i, kv[2][i]>> : i \in DOMAIN kv[2]} : kv \in h}

Spellings(key) ==
    CASE key = "From" -> {"From", "from", "FROM"}
      [] key = "To" -> {"To", "to", "TO"}
      [] key = "Subject" -> {"Subject", "subject", "SUBJECT"}

\* The writes that are header lines under the key, in any spelling.
LinesUnder(key) ==
    {j \in DOMAIN data : /\ Len(data[j]) >= 3
                         /\ data[j][1] \in Spellings(key)
                         /\ data[j][2] = COLON}

\* C18: every line Request.Write puts out under From, To or Subject, in any
\* spelling of the key, is one of the envelope lines, and a complete message
\* has From once, To once per recipient and Subject once, with the values of
\* the envelope fields.
C18_ReservedKeysFromEnvelopeOnly ==
    /\ \A j \in LinesUnder("From") \cup LinesUnder("To") \cup LinesUnder("Subject") :
        j <= EnvelopeLen
    /\ WroteAll =>
        /\ LinesUnder("From") = {1}
        /\ data[1] = <<"From", COLON, SP>> \o req.From \o <<CR, LF>>
        /\ LinesUnder("To") = 2..(1 + Len(req.To))
        /\ \A i \in DOMAIN req.To :
            data[1 + i] = <<"To", COLON, SP>> \o req.To[i] \o <<CR, LF>>
        /\ LinesUnder("Subject") = {EnvelopeLen}
        /\ data[EnvelopeLen] = <<"Subject", COLON, SP>> \o req.Subject \o <<CR, LF>>

\* The call wrote the command.
Wrote(g, cmd) == \E i \in DOMAIN calls[g].cmds : calls[g].cmds[i] = cmd

\* The call has another call on its Client.
Shares(g) == \E h \in Calls \ {g} : calls[h].cl = calls[g].cl

\* C19: a Send call that has its Client to itself takes its decisions from
\* its own greetings: the Client holds what the call's own EHLO responses
\* gave, STARTTLS is written only if the request asks for it and the call's
\* first greeting advertised it, a call that goes on to MAIL FROM in
\* plaintext was not to attempt it, and MAIL FROM carries BODY=8BITMIME
\* exactly when the call's latest EHLO response advertised 8BITMIME.  (That
\* two calls on one Client do influence each other is the case C19_Witness
\* describes.)
C19_IndependentClientsIsolated ==
    \A g \in Calls :
        ~Shares(g) =>
            /\ clients[calls[g].cl].ext = FreshExt(calls[g].greets)
            /\ clients[calls[g].cl].auth = FreshAuth(calls[g].greets)
            /\ (calls[g].pc = "starttls" \/ Wrote(g, "STARTTLS")) =>
                /\ calls[g].StartTLS
                /\ HasKey(FreshExt(<<calls[g].greets[1]>>), <<"STARTTLS">>)
            /\ (calls[g].pc = "mail" /\ ~calls[g].tlsUp) =>
                ~(calls[g].StartTLS
                  /\ HasKey(FreshExt(<<calls[g].greets[1]>>), <<"STARTTLS">>))
            /\ Wrote(g, "MAIL BODY=8BITMIME") =>
                HasKey(FreshExt(calls[g].greets), <<"8BITMIME">>)
            /\ Wrote(g, "MAIL") => ~HasKey(FreshExt(calls[g].greets), <<"8BITMIME">>)

\* C19's case: two calls on one Client; one of them wrote STARTTLS although
\* its own first greeting advertised none, and MAIL FROM with BODY=8BITMIME
\* although none of its own greetings advertised 8BITMIME, both taken from
\* what the other call's EHLO response wrote to the Client.
C19_Witness ==
    \E g \in Calls : \E h \in Calls \ {g} :
        /\ calls[h].cl = calls[g].cl
        /\ Wrote(g, "STARTTLS")
        /\ ~HasKey(FreshExt(<<calls[g].greets[1]>>), <<"STARTTLS">>)
        /\ Wrote(g, "MAIL BODY=8BITMIME")
        /\ \A i \in DOMAIN calls[g].greets :
            ~HasKey(CapsOfGreeting(calls[g].greets[i]), <<"8BITMIME">>)
        /\ \E i \in DOMAIN calls[h].greets :
            HasKey(CapsOfGreeting(calls[h].greets[i]), <<"8BITMIME">>)

====
